---- MODULE Spec2Model ----
(***************************************************************************)
(* The Image resource controller of the Linode Terraform provider          *)
(* (linode/resource_linode_image.go): Exists, Read, Create, Update and     *)
(* Delete of one managed image against the remote API.                     *)
(*                                                                         *)
(* A handler runs sequentially, but the remote side (other API users, the  *)
(* disk being imaged, transient API failures) may change between two of    *)
(* its requests.  So every handler is cut at its requests: one action per  *)
(* request, holding the request and the code that follows it up to the     *)
(* next request or the return.  pc is the handler's position.              *)
(***************************************************************************)
EXTENDS Integers, Sequences, FiniteSets, TLC

VARIABLES
    remote,     \* the API's images: id -> image record, or Nil when there is none
    nextId,     \* number of images the API has created so far (ids are never reused)
    disk,       \* status of the source disk, as the API reports it
    id,         \* d.Id()
    attrs,      \* the attribute bag of d, as d.Get reads it
    prior,      \* the attribute bag at the start of the running operation (old state)
    priorId,    \* d.Id() at the start of the running operation
    config,     \* the configuration the framework supplied to the last Create/Update
    pc,         \* position of the running handler, "idle" when none runs
    caller,     \* the operation the framework invoked (Read also runs inside Create and Update)
    image,      \* Read's local variable image (the result of its first GetImage)
    updateOpts, \* Update's local variable updateOpts
    reqs,       \* the requests the running operation has issued, with the status each got
    result,     \* how the last operation ended
    deleted,    \* ids whose Delete returned success (and that no CreateImage returned since)
    track,      \* follows a successful Create and the Reads after it, while nothing else touches the remote
    snap,       \* the ID and attributes a Create and the Read after it left, kept until another handler runs or the remote image changes
    vremote,    \* the API's volume: its label, region and the instances it is attached to, or Nil
    vattrs,     \* the volume resource's attribute bag, Nil when the resource has no state
    vprior,     \* vattrs at the start of the last volume operation
    vcfg,       \* the volume's configuration: label and linode_id (0 when unattached)
    vop,        \* the last volume operation, with the configured linode_id before it
    vreqs,      \* the requests the last volume operation issued
    detect      \* the last call of detectVolumeIDChange: have, want and what it returned

\* the image resource and its remote side
imageVars == <<remote, nextId, disk, id, attrs, prior, priorId, config, pc, caller,
               image, updateOpts, reqs, result, deleted, track, snap>>

\* the volume resource and its remote side
volVars == <<vremote, vattrs, vprior, vcfg, vop, vreqs, detect>>

vars == <<imageVars, volVars>>

----------------------------------------------------------------------------
(* Bounds of the model *)

\* number of images the API creates in a run
MaxImages == 2
\* number of instances a volume can be attached to
MaxInstances == 2

(* Values *)

\* d.Id() == "" : the resource has no ID (d.SetId(""))
EmptyId == 0
\* the status code that linodego.Error carries for "not found"
NotFound == 404

ImageIds == 1..MaxImages
\* the labels of the configuration: the schema admits the empty string
Labels == {"", "img-a"}
Descriptions == {"", "desc"}
DiskIds == {100}
LinodeIds == {200}

\* a nil pointer (*linodego.Image, *time.Time, *string)
Nil == [nil |-> TRUE]

\* t.Format(time.RFC3339): seconds resolution, the fraction is dropped
Format(t) ==
    CASE t.unix = 1 -> "1970-01-01T00:00:01Z"
      [] t.unix = 2 -> "1970-01-01T00:00:02Z"
      [] OTHER      -> "1970-01-01T00:00:00Z"

\* what a request can run into instead of an answer computed from the remote
\* state: an API error with a status other than 404, or a transport error
\* (an error that is no *linodego.Error, written 0 here)
ApiFailures == {500, 0}
\* 200: the request reaches the API and is answered from the remote state
Fates == {200} \cup ApiFailures

DiskStatuses == {"ready", "not ready"}

----------------------------------------------------------------------------
(* The local attribute bag *)

\* the schema's attributes with their zero values (a resource with no state)
ZeroAttrs ==
    [label |-> "", disk_id |-> 0, linode_id |-> 0, description |-> "",
     created |-> "", created_by |-> "", deprecated |-> FALSE, is_public |-> FALSE,
     size |-> 0, type |-> "", expiry |-> "", vendor |-> ""]

Configs == [label : Labels, description : Descriptions,
            disk_id : DiskIds, linode_id : LinodeIds]

\* d.Get over a diff: the configured attributes laid over the state
Merge(a, c) ==
    [a EXCEPT !.label = c.label, !.description = c.description,
              !.disk_id = c.disk_id, !.linode_id = c.linode_id]

\* d.HasChange(key): the old state against what d.Get returns now
HasChange(key) ==
    CASE key = "label"       -> prior.label # attrs.label
      [] key = "description" -> prior.description # attrs.description

----------------------------------------------------------------------------
(* The API client (linodego), as the controller sees it *)

\* the image the API builds for a create request
NewImage(opts, stamps) ==
    [label |-> opts.Label, description |-> opts.Description,
     type |-> "manual", size |-> 2500, vendor |-> "", created_by |-> "linode-user",
     deprecated |-> FALSE, is_public |-> FALSE,
     created |-> stamps.created, expiry |-> stamps.expiry]

\* the timestamps the API gives a new image: Created and Expiry are *time.Time
Stamps == {[created |-> [unix |-> 1, nsec |-> 0], expiry |-> Nil],
           [created |-> Nil, expiry |-> [unix |-> 2, nsec |-> 500]]}

Present(i) == i \in ImageIds /\ remote[i] # Nil

\* status of a request about image i that meets fate f
StatusFor(i, f) ==
    IF f # 200 THEN f ELSE IF Present(i) THEN 200 ELSE NotFound

\* client.GetImage: (image, err); image is nil whenever err is not
GetImage(i, f) ==
    [code |-> StatusFor(i, f),
     image |-> IF StatusFor(i, f) = 200 THEN remote[i] ELSE Nil]

\* the image after the API applied an update request: an empty Label and a nil
\* Description are not part of the request (omitempty)
ApplyUpdate(img, opts) ==
    [img EXCEPT !.label = IF opts.Label # "" THEN opts.Label ELSE @,
                !.description = IF opts.Description # Nil THEN opts.Description.v ELSE @]

Req(call, code) == [call |-> call, code |-> code]

----------------------------------------------------------------------------
(* resourceLinodeImageExists: (found, err) from the status of its GetImage *)

\* a variant that reports every failed get request, 404 included, as an error
ExistsNotFoundIsError(code) ==
    IF code # 200
    THEN [found |-> FALSE, err |-> TRUE]
    ELSE [found |-> TRUE, err |-> FALSE]

resourceLinodeImageExists(code) ==
    IF code # 200
    THEN IF code = NotFound
         THEN [found |-> FALSE, err |-> FALSE]
         ELSE [found |-> FALSE, err |-> TRUE]
    ELSE [found |-> TRUE, err |-> FALSE]

\* a variant without d.Set("description", ...)
SetFromImageSkipsDescription(a, img) ==
    [a EXCEPT !.label = img.label,
              !.type = img.type,
              !.size = img.size,
              !.vendor = img.vendor,
              !.created_by = img.created_by,
              !.deprecated = img.deprecated,
              !.is_public = img.is_public,
              !.created = IF img.created # Nil THEN Format(img.created) ELSE @,
              !.expiry = IF img.expiry # Nil THEN Format(img.expiry) ELSE @]

\* a variant that also sets the timestamps when the image has none
SetFromImageClearsStamps(a, img) ==
    [a EXCEPT !.label = img.label,
              !.description = img.description,
              !.type = img.type,
              !.size = img.size,
              !.vendor = img.vendor,
              !.created_by = img.created_by,
              !.deprecated = img.deprecated,
              !.is_public = img.is_public,
              !.created = IF img.created # Nil THEN Format(img.created) ELSE "",
              !.expiry = IF img.expiry # Nil THEN Format(img.expiry) ELSE ""]

\* the d.Set calls of resourceLinodeImageRead, image being non-nil
SetFromImage(a, img) ==
    [a EXCEPT !.label = img.label,
              !.description = img.description,
              !.type = img.type,
              !.size = img.size,
              !.vendor = img.vendor,
              !.created_by = img.created_by,
              !.deprecated = img.deprecated,
              !.is_public = img.is_public,
              !.created = IF img.created # Nil THEN Format(img.created) ELSE @,
              !.expiry = IF img.expiry # Nil THEN Format(img.expiry) ELSE @]

Ended(op, status, found) == [op |-> op, status |-> status, found |-> found]

\* result while a handler runs
Running == Ended("none", "running", FALSE)

----------------------------------------------------------------------------
Init ==
    /\ remote = [i \in ImageIds |-> Nil]
    /\ nextId = 0
    /\ disk \in DiskStatuses
    /\ id = EmptyId
    /\ attrs = ZeroAttrs
    /\ prior = ZeroAttrs
    /\ priorId = EmptyId
    /\ config = [label |-> "img-a", description |-> "", disk_id |-> 100, linode_id |-> 200]
    /\ pc = "idle"
    /\ caller = "none"
    /\ image = Nil
    /\ updateOpts = [Label |-> "", Description |-> Nil]
    /\ reqs = <<>>
    /\ result = Ended("none", "ok", FALSE)
    /\ deleted = {}
    /\ track = "none"
    /\ snap = Nil
    /\ vremote = Nil
    /\ vattrs = Nil
    /\ vprior = Nil
    /\ vcfg = [label |-> "v1", linode_id |-> 0]
    /\ vop = [op |-> "none", wantBefore |-> 0]
    /\ vreqs = <<>>
    /\ detect = [have |-> Nil, want |-> Nil, changed |-> FALSE]


----------------------------------------------------------------------------
(* Helpers of the actions *)

\* snap once the remote image i is no longer what it was
Drop(i) == IF snap # Nil /\ snap.id = i THEN Nil ELSE snap

\* the handler returns to the framework
Return(op, status, found) ==
    /\ pc' = "idle"
    /\ result' = Ended(op, status, found)

Log(call, code) == reqs' = Append(reqs, Req(call, code))

\* client.WaitForInstanceDiskStatus(..., linodego.DiskReady, timeout): 200 when
\* the poll saw the disk ready, the failure when a poll request failed, and an
\* error that is no API error (0) when the deadline passed first
WaitForInstanceDiskStatus(f) ==
    IF f # 200 THEN f ELSE IF disk = "ready" THEN 200 ELSE 0

----------------------------------------------------------------------------
(* resourceLinodeImageCreate *)

\* the framework calls Create for a resource that has no ID, with the
\* configuration; ok is whether meta is a linodego.Client (lines 138-141): if
\* not, Create returns an error before any request
CreateStart(c, ok) ==
    /\ pc = "idle"
    /\ id = EmptyId
    /\ nextId < MaxImages
    /\ config' = c
    /\ prior' = ZeroAttrs
    /\ priorId' = id
    /\ attrs' = Merge(ZeroAttrs, c)
    /\ caller' = "Create"
    /\ reqs' = <<>>
    /\ image' = Nil
    /\ track' = "none"
    /\ IF ok
       THEN pc' = "create_wait1" /\ result' = Running
       ELSE Return("Create", "err", FALSE)
    /\ UNCHANGED <<remote, nextId, disk, id, deleted>>
    /\ updateOpts' = [Label |-> "", Description |-> Nil]
    /\ snap' = Nil
    /\ UNCHANGED volVars

\* a variant that waits again when the wait failed
AfterWaitRetries(code, next) == IF code # 200 THEN "create_wait1" ELSE next

\* a variant that goes on whatever the wait returned
AfterWaitIgnoresError(code, next) == next

\* where Create goes after a disk wait that ended with status code: on to
\* the next request, or out with an error
AfterWait(code, next) == IF code # 200 THEN "return" ELSE next

\* the first wait for the disk (line 147)
CreateWait1(f) ==
    /\ pc = "create_wait1"
    /\ LET code == WaitForInstanceDiskStatus(f)
           to == AfterWait(code, "create_image")
       IN /\ Log("WaitForInstanceDiskStatus", code)
          /\ IF to = "return"
             THEN Return("Create", "err", FALSE)
             ELSE pc' = to /\ UNCHANGED result
    /\ UNCHANGED <<remote, nextId, disk, id, attrs, prior, priorId, config, caller,
                   image, updateOpts, deleted, track>>
    /\ UNCHANGED snap
    /\ UNCHANGED volVars

\* a variant that fills Label from the description
CreateOptsLabelFromDescription(a) ==
    [DiskID |-> a.disk_id, Label |-> a.description, Description |-> a.description]

\* createOpts (lines 151-155)
CreateOpts(a) ==
    [DiskID |-> a.disk_id, Label |-> a.label, Description |-> a.description]

\* client.CreateImage and d.SetId(image.ID) (lines 157-165)
CreateImage(f, stamps) ==
    /\ pc = "create_image"
    /\ Log("CreateImage", f)
    /\ IF f # 200
       THEN /\ Return("Create", "err", FALSE)
            /\ UNCHANGED <<remote, nextId, id, deleted, track>>
       ELSE /\ remote' = [remote EXCEPT ![nextId + 1] = NewImage(CreateOpts(attrs), stamps)]
            /\ nextId' = nextId + 1
            /\ id' = nextId + 1
            /\ deleted' = deleted \ {nextId + 1}
            /\ track' = "creating"
            /\ pc' = "create_wait2"
            /\ UNCHANGED result
    /\ UNCHANGED <<disk, attrs, prior, priorId, config, caller, image, updateOpts>>
    /\ UNCHANGED snap
    /\ UNCHANGED volVars

\* the second wait for the disk (line 167)
CreateWait2(f) ==
    /\ pc = "create_wait2"
    /\ LET code == WaitForInstanceDiskStatus(f)
           to == AfterWait(code, "create_exists")
       IN /\ Log("WaitForInstanceDiskStatus", code)
          /\ IF to = "return"
             THEN Return("Create", "err", FALSE)
             ELSE pc' = to /\ UNCHANGED result
    /\ UNCHANGED <<remote, nextId, disk, id, attrs, prior, priorId, config, caller,
                   image, updateOpts, deleted, track>>
    /\ UNCHANGED snap
    /\ UNCHANGED volVars

\* the existence check of the new image (lines 171-177); then Read (line 179)
CreateExists(f) ==
    /\ pc = "create_exists"
    /\ LET r == GetImage(id, f)
           e == resourceLinodeImageExists(r.code)
       IN /\ Log("GetImage", r.code)
          /\ IF e.err \/ ~e.found
             THEN Return("Create", "err", FALSE)
             ELSE pc' = "read_get" /\ UNCHANGED result
    /\ UNCHANGED <<remote, nextId, disk, id, attrs, prior, priorId, config, caller,
                   image, updateOpts, deleted, track>>
    /\ UNCHANGED snap
    /\ UNCHANGED volVars

----------------------------------------------------------------------------
(* resourceLinodeImageRead *)

\* the framework calls Read for a resource that has an ID (a refresh)
ReadStart ==
    /\ pc = "idle"
    /\ id # EmptyId
    /\ caller' = "Read"
    /\ prior' = attrs
    /\ priorId' = id
    /\ reqs' = <<>>
    /\ image' = Nil
    /\ track' = IF track = "created" THEN "reading"
                ELSE IF track = "imported" THEN "import_reading"
                ELSE "none"
    /\ pc' = "read_get"
    /\ result' = Running
    /\ UNCHANGED <<remote, nextId, disk, id, attrs, config, deleted>>
    /\ updateOpts' = [Label |-> "", Description |-> Nil]
    /\ snap' = IF track \in {"created", "imported"} THEN snap ELSE Nil
    /\ UNCHANGED volVars

\* image, err := client.GetImage(...) (line 107); err is overwritten at line 109
ReadGet(f) ==
    /\ pc = "read_get"
    /\ LET r == GetImage(id, f)
       IN /\ Log("GetImage", r.code)
          /\ image' = r.image
    /\ pc' = "read_exists"
    /\ UNCHANGED <<remote, nextId, disk, id, attrs, prior, priorId, config, caller,
                   updateOpts, result, deleted, track>>
    /\ UNCHANGED snap
    /\ UNCHANGED volVars

\* a variant that trusts the image of the first get request and does not look
\* at the existence check
ReadOutcomeTrustsFirstGet(i, a, img, code) ==
    IF img = Nil THEN [status |-> "err", id |-> i, attrs |-> a]
    ELSE [status |-> "ok", id |-> i, attrs |-> SetFromImage(a, img)]

\* a variant that keeps the ID of an image it did not find
ReadOutcomeKeepsId(i, a, img, code) ==
    LET e == resourceLinodeImageExists(code)
    IN IF e.err THEN [status |-> "err", id |-> i, attrs |-> a]
       ELSE IF ~e.found THEN [status |-> "ok", id |-> i, attrs |-> a]
       ELSE IF img = Nil THEN [status |-> "panic", id |-> i, attrs |-> a]
       ELSE [status |-> "ok", id |-> i, attrs |-> SetFromImage(a, img)]

\* lines 109-134, from the status of the GetImage inside Exists: how Read ends
\* and the ID and attributes it leaves.  image.Label with image nil is a nil
\* pointer dereference: the handler panics.
ReadOutcome(i, a, img, code) ==
    LET e == resourceLinodeImageExists(code)
    IN IF e.err THEN [status |-> "err", id |-> i, attrs |-> a]
       ELSE IF ~e.found THEN [status |-> "ok", id |-> EmptyId, attrs |-> a]
       ELSE IF img = Nil THEN [status |-> "panic", id |-> i, attrs |-> a]
       ELSE [status |-> "ok", id |-> i, attrs |-> SetFromImage(a, img)]

ReadExists(f) ==
    /\ pc = "read_exists"
    /\ LET r == GetImage(id, f)
           o == ReadOutcome(id, attrs, image, r.code)
       IN /\ Log("GetImage", r.code)
          /\ id' = o.id
          /\ attrs' = o.attrs
          /\ Return(caller, o.status, FALSE)
          /\ track' = IF o.status = "ok" /\ track = "creating" THEN "created"
                      ELSE IF o.status = "ok" /\ track = "reading" THEN "read"
                      ELSE IF o.status = "ok" /\ track = "import_reading" THEN "import_read"
                      ELSE "none"
    /\ UNCHANGED <<remote, nextId, disk, prior, priorId, config, caller, image,
                   updateOpts, deleted>>
    /\ snap' = IF track' \in {"created", "read"}
               THEN [id |-> id', attrs |-> attrs']
               ELSE snap
    /\ UNCHANGED volVars


----------------------------------------------------------------------------
(* resourceLinodeImageUpdate *)

\* the framework calls Update for a resource that has an ID when the configured
\* label or description differs from the state and disk_id and linode_id, which
\* are ForceNew, do not; from the entry of Update on d.Get reads the configured
\* label and description
UpdateStart(c) ==
    /\ pc = "idle"
    /\ id # EmptyId
    /\ <<c.label, c.description>> # <<attrs.label, attrs.description>>
    /\ attrs.disk_id = config.disk_id /\ attrs.linode_id = config.linode_id
    /\ config' = [config EXCEPT !.label = c.label, !.description = c.description]
    /\ prior' = attrs
    /\ priorId' = id
    /\ attrs' = [attrs EXCEPT !.label = c.label, !.description = c.description]
    /\ caller' = "Update"
    /\ reqs' = <<>>
    /\ image' = Nil
    /\ track' = "none"
    /\ pc' = "update_get"
    /\ result' = Running
    /\ UNCHANGED <<remote, nextId, disk, id, updateOpts, deleted>>
    /\ snap' = Nil
    /\ UNCHANGED volVars

\* updateOpts (lines 190-199): Label is a string, Description a *string
UpdateOpts(labelChanged, descriptionChanged, a) ==
    [Label |-> IF labelChanged THEN a.label ELSE "",
     Description |-> IF descriptionChanged THEN [v |-> a.description] ELSE Nil]

\* client.GetImage (lines 185-188), then the building of updateOpts
UpdateGet(f) ==
    /\ pc = "update_get"
    /\ LET r == GetImage(id, f)
       IN /\ Log("GetImage", r.code)
          /\ IF r.code # 200
             THEN /\ Return("Update", "err", FALSE)
                  /\ UNCHANGED updateOpts
             ELSE /\ updateOpts' = UpdateOpts(HasChange("label"), HasChange("description"), attrs)
                  /\ pc' = "update_put"
                  /\ UNCHANGED result
    /\ UNCHANGED <<remote, nextId, disk, id, attrs, prior, priorId, config, caller,
                   image, deleted, track>>
    /\ UNCHANGED snap
    /\ UNCHANGED volVars

\* client.UpdateImage (lines 201-207); then Read (line 209)
UpdatePut(f) ==
    /\ pc = "update_put"
    /\ LET code == StatusFor(id, f)
       IN /\ Log("UpdateImage", code)
          /\ IF code # 200
             THEN /\ Return("Update", "err", FALSE)
                  /\ UNCHANGED <<remote, attrs>>
             ELSE /\ remote' = [remote EXCEPT ![id] = ApplyUpdate(@, updateOpts)]
                  /\ attrs' = [attrs EXCEPT !.label = remote'[id].label,
                                            !.description = remote'[id].description]
                  /\ pc' = "read_get"
                  /\ UNCHANGED result
    /\ UNCHANGED <<nextId, disk, id, prior, priorId, config, caller, image,
                   updateOpts, deleted, track>>
    /\ snap' = IF StatusFor(id, f) = 200 THEN Drop(id) ELSE snap
    /\ UNCHANGED volVars

----------------------------------------------------------------------------
(* resourceLinodeImageDelete *)

\* a variant that clears the ID although the delete request failed
DeleteOutcomeClearsOnError(i, code) ==
    IF code # 200
    THEN [status |-> "err", id |-> EmptyId]
    ELSE [status |-> "ok", id |-> EmptyId]

\* a variant that ignores the error of the delete request
DeleteOutcomeIgnoresError(i, code) == [status |-> "ok", id |-> EmptyId]

\* lines 215-220, from the status of the delete request: how Delete ends and
\* the ID it leaves
DeleteOutcome(i, code) ==
    IF code # 200
    THEN [status |-> "err", id |-> i]
    ELSE [status |-> "ok", id |-> EmptyId]

\* the framework calls Delete for a resource that has an ID
DeleteStart ==
    /\ pc = "idle"
    /\ id # EmptyId
    /\ caller' = "Delete"
    /\ prior' = attrs
    /\ priorId' = id
    /\ reqs' = <<>>
    /\ image' = Nil
    /\ track' = "none"
    /\ pc' = "delete"
    /\ result' = Running
    /\ UNCHANGED <<remote, nextId, disk, id, attrs, config, deleted>>
    /\ updateOpts' = [Label |-> "", Description |-> Nil]
    /\ snap' = Nil
    /\ UNCHANGED volVars

Delete(f) ==
    /\ pc = "delete"
    /\ LET code == StatusFor(id, f)
           o == DeleteOutcome(id, code)
       IN /\ Log("DeleteImage", code)
          /\ remote' = IF code = 200 THEN [remote EXCEPT ![id] = Nil] ELSE remote
          /\ deleted' = IF o.status = "ok" THEN deleted \cup {id} ELSE deleted
          /\ id' = o.id
          /\ Return("Delete", o.status, FALSE)
    /\ UNCHANGED <<nextId, disk, attrs, prior, priorId, config, caller, image,
                   updateOpts, track>>
    /\ snap' = IF StatusFor(id, f) = 200 THEN Drop(id) ELSE snap
    /\ UNCHANGED volVars

----------------------------------------------------------------------------
(* resourceLinodeImageExists, called by the framework *)

\* the framework calls Exists for a resource that has an ID
ExistsStart ==
    /\ pc = "idle"
    /\ id # EmptyId
    /\ caller' = "Exists"
    /\ prior' = attrs
    /\ priorId' = id
    /\ reqs' = <<>>
    /\ image' = Nil
    /\ track' = "none"
    /\ pc' = "exists"
    /\ result' = Running
    /\ UNCHANGED <<remote, nextId, disk, id, attrs, config, deleted>>
    /\ updateOpts' = [Label |-> "", Description |-> Nil]
    /\ snap' = Nil
    /\ UNCHANGED volVars

Exists(f) ==
    /\ pc = "exists"
    /\ LET r == GetImage(id, f)
           e == resourceLinodeImageExists(r.code)
       IN /\ Log("GetImage", r.code)
          /\ Return("Exists", IF e.err THEN "err" ELSE "ok", e.found)
    /\ UNCHANGED <<remote, nextId, disk, id, attrs, prior, priorId, config, caller,
                   image, updateOpts, deleted, track>>
    /\ UNCHANGED snap
    /\ UNCHANGED volVars

----------------------------------------------------------------------------
(* schema.ImportStatePassthrough: the given ID becomes d.Id() of a new resource *)
(* data, nothing else is set.  The framework imports an ID for a resource it  *)
(* has no state of, or imports the ID of the resource again to compare the    *)
(* outcome with the stored state.                                             *)

Import(i) ==
    /\ pc = "idle"
    /\ id = EmptyId \/ i = id
    /\ id' = i
    /\ attrs' = ZeroAttrs
    /\ prior' = ZeroAttrs
    /\ priorId' = EmptyId
    /\ caller' = "Import"
    /\ reqs' = <<>>
    /\ image' = Nil
    /\ track' = "imported"
    /\ Return("Import", "ok", FALSE)
    /\ UNCHANGED <<remote, nextId, disk, config, deleted>>
    /\ updateOpts' = [Label |-> "", Description |-> Nil]
    /\ UNCHANGED snap
    /\ UNCHANGED volVars

----------------------------------------------------------------------------
(* The remote side, outside the controller's hands.  A change made while no  *)
(* handler runs cannot be told from the same change made right after the    *)
(* next handler was invoked, before its first request: it is taken there.   *)

\* someone else deletes the image
ExternalDelete(i) ==
    /\ pc # "idle"
    /\ Present(i)
    /\ remote' = [remote EXCEPT ![i] = Nil]
    /\ track' = "none"
    /\ UNCHANGED <<nextId, disk, id, attrs, prior, priorId, config, pc, caller,
                   image, updateOpts, reqs, result, deleted>>
    /\ snap' = Drop(i)
    /\ UNCHANGED volVars

\* someone else relabels or redescribes the image
ExternalModify(i, l, de) ==
    /\ pc # "idle"
    /\ Present(i)
    /\ <<l, de>> # <<remote[i].label, remote[i].description>>
    /\ remote' = [remote EXCEPT ![i].label = l, ![i].description = de]
    /\ track' = "none"
    /\ UNCHANGED <<nextId, disk, id, attrs, prior, priorId, config, pc, caller,
                   image, updateOpts, reqs, result, deleted>>
    /\ snap' = Drop(i)
    /\ UNCHANGED volVars

\* the API reports other timestamps for the image (an expiry set or lifted)
ExternalRestamp(i, st) ==
    /\ pc # "idle"
    /\ Present(i)
    /\ <<st.created, st.expiry>> # <<remote[i].created, remote[i].expiry>>
    /\ remote' = [remote EXCEPT ![i].created = st.created, ![i].expiry = st.expiry]
    /\ track' = "none"
    /\ UNCHANGED <<nextId, disk, id, attrs, prior, priorId, config, pc, caller,
                   image, updateOpts, reqs, result, deleted>>
    /\ snap' = Drop(i)
    /\ UNCHANGED volVars

\* the disk becomes busy or ready; only a pending wait observes it
DiskChange(s) ==
    /\ pc \in {"create_wait1", "create_wait2"}
    /\ disk # s
    /\ disk' = s
    /\ UNCHANGED <<remote, nextId, id, attrs, prior, priorId, config, pc, caller,
                   image, updateOpts, reqs, result, deleted, track>>
    /\ UNCHANGED snap
    /\ UNCHANGED volVars

----------------------------------------------------------------------------
Next ==
    \/ \E c \in Configs, ok \in BOOLEAN : CreateStart(c, ok)
    \/ \E f \in Fates : CreateWait1(f)
    \/ \E f \in Fates, st \in Stamps : CreateImage(f, st)
    \/ \E f \in Fates : CreateWait2(f)
    \/ \E f \in Fates : CreateExists(f)
    \/ ReadStart
    \/ \E f \in Fates : ReadGet(f)
    \/ \E f \in Fates : ReadExists(f)
    \/ \E c \in Configs : UpdateStart(c)
    \/ \E f \in Fates : UpdateGet(f)
    \/ \E f \in Fates : UpdatePut(f)
    \/ DeleteStart
    \/ \E f \in Fates : Delete(f)
    \/ ExistsStart
    \/ \E f \in Fates : Exists(f)
    \/ \E i \in ImageIds : Import(i)
    \/ \E i \in ImageIds : ExternalDelete(i)
    \/ \E i \in ImageIds, l \in Labels, de \in Descriptions : ExternalModify(i, l, de)
    \/ \E i \in ImageIds, st \in Stamps : ExternalRestamp(i, st)
    \/ \E s \in DiskStatuses : DiskChange(s)

Spec == Init /\ [][Next]_vars


----------------------------------------------------------------------------
(* The Volume resource controller and its change detector.  A volume's      *)
(* linode_id is optional: nil (0 in the attribute bag) when it is attached  *)
(* to no instance.  The handlers run one at a time, each as a whole.        *)

Instances == 1..MaxInstances
VolumeLabels == {"v1", "v1_r"}

\* optional integers (*int)
OptInts == {Nil} \cup {[v |-> n] : n \in 0..MaxInstances}

\* a variant that takes the change to nil for no change
DetectMissesDetach(have, want) ==
    IF want = Nil THEN FALSE
    ELSE IF have = Nil THEN TRUE
    ELSE have.v # want.v

\* a variant that compares the pointers, not the integers
DetectComparesPointers(have, want) == ~(have = Nil /\ want = Nil)

\* detectVolumeIDChange(have, want): no change when both are nil, a change when
\* exactly one is nil, and otherwise a change when the integers differ
detectVolumeIDChange(have, want) ==
    IF have = Nil /\ want = Nil THEN FALSE
    ELSE IF have = Nil \/ want = Nil THEN TRUE
    ELSE have.v # want.v

\* the unit test's calls of detectVolumeIDChange, on any two optional integers
Detect(have, want) ==
    /\ detect' = [have |-> have, want |-> want,
                  changed |-> detectVolumeIDChange(have, want)]
    /\ UNCHANGED <<vremote, vattrs, vprior, vcfg, vop, vreqs>>
    /\ UNCHANGED imageVars

\* volume.LinodeID as the API reports it
Have(vol) == IF vol.attached = {} THEN Nil ELSE [v |-> CHOOSE i \in vol.attached : TRUE]

\* the configured linode_id as an optional integer (d.GetOk: 0 is unset)
Want(n) == IF n = 0 THEN Nil ELSE [v |-> n]

\* Read: the remote volume mapped onto the attribute bag
VolumeAttrs(vol) ==
    [label |-> vol.label, region |-> vol.region,
     linode_id |-> IF Have(vol) = Nil THEN 0 ELSE Have(vol).v]

\* a variant that detaches only when the volume is to stay unattached
NeedsDetachOnlyToUnattach(have, want) == have # Nil /\ want = Nil

\* a changed attachment is first detached from the instance that has it
NeedsDetach(have, want) == have # Nil

\* the attach and detach requests of an Update
AttachmentRequests(have, want) ==
    IF ~detectVolumeIDChange(have, want) THEN <<>>
    ELSE (IF NeedsDetach(have, want) THEN <<"DetachVolume">> ELSE <<>>)
         \o (IF want # Nil THEN <<"AttachVolume">> ELSE <<>>)

\* the instances the volume is attached to after those requests
AttachedAfter(att, have, want) ==
    IF ~detectVolumeIDChange(have, want) THEN att
    ELSE (IF NeedsDetach(have, want) THEN {} ELSE att)
         \cup (IF want # Nil THEN {want.v} ELSE {})

\* Create: the create request, then Read
VolumeCreate(l, n) ==
    /\ vattrs = Nil /\ vremote = Nil
    /\ vcfg' = [label |-> l, linode_id |-> n]
    /\ vremote' = [label |-> l, region |-> "us-west",
                   attached |-> IF n = 0 THEN {} ELSE {n}]
    /\ vprior' = vattrs
    /\ vattrs' = VolumeAttrs(vremote')
    /\ vop' = [op |-> "Create", wantBefore |-> 0]
    /\ vreqs' = <<"CreateVolume", "GetVolume">>
    /\ UNCHANGED detect
    /\ UNCHANGED imageVars

\* Read (a refresh)
VolumeRead ==
    /\ vattrs # Nil /\ vremote # Nil
    /\ vprior' = vattrs
    /\ vattrs' = VolumeAttrs(vremote)
    /\ vop' = [op |-> "Read", wantBefore |-> vcfg.linode_id]
    /\ vreqs' = <<"GetVolume">>
    /\ UNCHANGED <<vremote, vcfg, detect>>
    /\ UNCHANGED imageVars

\* Update to a changed configuration: the update request for a changed label,
\* the attachment requests the change detector asks for, then Read
VolumeUpdate(l, n) ==
    /\ vattrs # Nil /\ vremote # Nil
    /\ <<l, n>> # <<vcfg.label, vcfg.linode_id>>
    /\ LET have == Have(vremote)
           want == Want(n)
       IN /\ detect' = [have |-> have, want |-> want,
                        changed |-> detectVolumeIDChange(have, want)]
          /\ vreqs' = <<"GetVolume">>
                      \o (IF l # vattrs.label THEN <<"UpdateVolume">> ELSE <<>>)
                      \o AttachmentRequests(have, want)
                      \o <<"GetVolume">>
          /\ vremote' = [vremote EXCEPT
                            !.label = IF l # vattrs.label THEN l ELSE @,
                            !.attached = AttachedAfter(@, have, want)]
    /\ vcfg' = [label |-> l, linode_id |-> n]
    /\ vprior' = vattrs
    /\ vattrs' = VolumeAttrs(vremote')
    /\ vop' = [op |-> "Update", wantBefore |-> vcfg.linode_id]
    /\ UNCHANGED imageVars

\* Delete: the delete request, then the resource has no state
VolumeDelete ==
    /\ vattrs # Nil /\ vremote # Nil
    /\ vremote' = Nil
    /\ vprior' = vattrs
    /\ vattrs' = Nil
    /\ vop' = [op |-> "Delete", wantBefore |-> vcfg.linode_id]
    /\ vreqs' = <<"DeleteVolume">>
    /\ UNCHANGED <<vcfg, detect>>
    /\ UNCHANGED imageVars

VolumeNext ==
    \/ \E have \in OptInts, want \in OptInts : Detect(have, want)
    \/ \E l \in VolumeLabels, n \in {0} \cup Instances : VolumeCreate(l, n)
    \/ VolumeRead
    \/ \E l \in VolumeLabels, n \in {0} \cup Instances : VolumeUpdate(l, n)
    \/ VolumeDelete

VolumeSpec == Init /\ [][VolumeNext]_vars

----------------------------------------------------------------------------
(* Properties of the controller *)

\* the operation op has returned to the framework
Returned(op) == pc = "idle" /\ result.op = op

\* the status the k-th request of the operation got
CodeOf(k) == reqs[k].code

\* C1: every failed Create leaves the local ID empty when it returns (a failed
\* Create keeps no partial local state).
C1_FailedCreateKeepsNoId ==
    (Returned("Create") /\ result.status = "err") => id = EmptyId

\* C2: whenever Create returns success the local ID is non-empty and is the ID
\* that CreateImage returned, whatever happened to the remote image meanwhile.
C2_SuccessfulCreateHasCreatedId ==
    (Returned("Create") /\ result.status = "ok") => (id # EmptyId /\ id = nextId)

\* C3: a Delete whose delete request is answered with 404 (the image is already
\* absent) returns no error and clears the local ID.
C3_DeleteOfAbsentSucceeds ==
    (Returned("Delete") /\ CodeOf(1) = NotFound)
        => (result.status = "ok" /\ id = EmptyId)

\* C4: an operation one of whose requests failed with anything but 404 returns
\* an error.
C4_ApiFailureMakesOperationFail ==
    (/\ pc = "idle"
     /\ result.op \in {"Exists", "Read", "Create", "Update", "Delete"}
     /\ \E k \in DOMAIN reqs : CodeOf(k) \notin {200, NotFound})
        => result.status = "err"

\* C5: Exists returns (false, nil) exactly when its get request is answered with
\* 404, (false, error) for every other failure of the request and (true, nil)
\* when the request succeeds; it leaves the local ID and attributes alone.
C5_ExistsResult ==
    Returned("Exists") =>
        /\ Len(reqs) = 1 /\ reqs[1].call = "GetImage"
        /\ (CodeOf(1) = NotFound) <=> (~result.found /\ result.status = "ok")
        /\ (CodeOf(1) \notin {200, NotFound}) <=> (~result.found /\ result.status = "err")
        /\ (CodeOf(1) = 200) <=> (result.found /\ result.status = "ok")
        /\ id = priorId
        /\ attrs = prior

C5_Witness ==
    Returned("Exists") /\ CodeOf(1) = NotFound /\ ~result.found /\ result.status = "ok"

\* C6: a Read whose existence check finds the remote image gone clears the local
\* ID, returns success and writes no attribute.
C6_ReadOfVanishedImage ==
    (/\ Returned("Read")
     /\ ~Present(priorId)
     /\ CodeOf(2) \notin ApiFailures)
        => (id = EmptyId /\ result.status = "ok" /\ attrs = prior)

C6_Witness ==
    /\ Returned("Read") /\ ~Present(priorId) /\ CodeOf(2) = NotFound
    /\ id = EmptyId /\ priorId # EmptyId /\ prior.label # ""

\* C7: CreateImage is requested only after the first wait returned with the disk
\* ready; when that wait fails Create returns an error, has requested no
\* CreateImage and the local ID is still empty.
C7_CreateImageOnlyAfterDiskReady ==
    /\ \A k \in DOMAIN reqs :
          reqs[k].call = "CreateImage"
              => (k = 2 /\ reqs[1] = Req("WaitForInstanceDiskStatus", 200))
    /\ pc = "create_image"
          => (disk = "ready" /\ reqs = <<Req("WaitForInstanceDiskStatus", 200)>>)
    /\ (caller = "Create" /\ Len(reqs) >= 1 /\ CodeOf(1) # 200)
          => (Returned("Create") /\ result.status = "err" /\ Len(reqs) = 1
              /\ id = EmptyId)

C7_Witness ==
    /\ Returned("Create") /\ result.status = "err"
    /\ reqs = <<Req("WaitForInstanceDiskStatus", 0)>>
    /\ disk = "not ready" /\ id = EmptyId

\* C8: after a successful Delete of an ID, and no Create since, an Exists on that
\* ID that the API answers returns (false, nil).
C8_ExistsAfterDelete ==
    (/\ Returned("Exists")
     /\ priorId \in deleted
     /\ CodeOf(1) \notin ApiFailures)
        => (~result.found /\ result.status = "ok")

C8_Witness ==
    /\ Returned("Exists") /\ priorId \in deleted /\ CodeOf(1) = NotFound
    /\ ~result.found /\ result.status = "ok"

\* C9: after a successful Create and a Read right after it, nothing else having
\* changed the remote image, label, disk_id and linode_id are the values that
\* were supplied to Create.
C9_CreateReadRoundTrip ==
    (pc = "idle" /\ track \in {"created", "read"}) =>
        /\ attrs.label = config.label
        /\ attrs.disk_id = config.disk_id
        /\ attrs.linode_id = config.linode_id

C9_Witness ==
    /\ Returned("Read") /\ track = "read" /\ result.status = "ok"
    /\ id # EmptyId /\ attrs.label = config.label /\ attrs.label = "img-a"
    /\ attrs.disk_id = 100 /\ attrs.linode_id = 200

\* C10: the update request carries the label exactly when the label changed and
\* the description exactly when the description changed; the remote value of a
\* field that did not change is the same after the request as before it, and
\* that of a field that changed is the configured one.
C10_UpdateCarriesOnlyChanges ==
    [][(pc = "update_put" /\ pc' = "read_get") =>
          /\ (updateOpts.Label # "") <=> HasChange("label")
          /\ (updateOpts.Description # Nil) <=> HasChange("description")
          /\ ~HasChange("label") => remote'[id].label = remote[id].label
          /\ ~HasChange("description") => remote'[id].description = remote[id].description
          /\ HasChange("label") => remote'[id].label = config.label
          /\ HasChange("description") => remote'[id].description = config.description
      ]_vars

\* C11: a handler never changes a non-empty local ID to another non-empty
\* value; it only clears it, in a Delete that succeeded or in a Read whose
\* existence check found the remote image absent.
C11_IdOnlyEverCleared ==
    [][(pc # "idle" /\ id # EmptyId /\ id' # id) =>
          /\ id' = EmptyId
          /\ \/ (pc = "delete" /\ result' = Ended("Delete", "ok", FALSE))
             \/ (/\ pc = "read_exists"
                 /\ reqs'[Len(reqs')] = Req("GetImage", NotFound)
                 /\ result'.status = "ok"
                 /\ ~Present(id))
      ]_vars

C11_Witness ==
    /\ Returned("Update") /\ result.status = "ok"
    /\ priorId # EmptyId /\ id = EmptyId

----------------------------------------------------------------------------
(* Termination of Create *)

\* the steps of a running Create: each is taken once its request has returned
CreateStep ==
    \/ \E f \in Fates : CreateWait1(f)
    \/ \E f \in Fates, st \in Stamps : CreateImage(f, st)
    \/ \E f \in Fates : CreateWait2(f)
    \/ \E f \in Fates : CreateExists(f)
    \/ \E f \in Fates : ReadGet(f)
    \/ \E f \in Fates : ReadExists(f)

\* every request of a handler returns (the waits by their deadline)
FairSpec == Spec /\ WF_vars(CreateStep)

\* how many of the operation's requests so far were calls of call
Count(call) == Cardinality({k \in DOMAIN reqs : reqs[k].call = call})

\* C17: a Create terminates; it issues at most two disk waits, one CreateImage
\* and three get requests, and a wait that failed is its last request.
C17_CreateTerminates ==
    /\ [](caller = "Create" =>
            /\ Count("WaitForInstanceDiskStatus") <= 2
            /\ Count("CreateImage") <= 1
            /\ Count("GetImage") <= 3
            /\ \A k \in DOMAIN reqs :
                  (reqs[k].call = "WaitForInstanceDiskStatus" /\ CodeOf(k) # 200)
                      => (k = Len(reqs) /\ Returned("Create") /\ result.status = "err"))
    /\ (caller = "Create" /\ pc # "idle") ~> (pc = "idle")

C17_Witness ==
    /\ Returned("Create") /\ result.status = "err"
    /\ Len(reqs) = 3 /\ reqs[3] = Req("WaitForInstanceDiskStatus", 0)


----------------------------------------------------------------------------
(* The two get requests of Read *)

\* C15: Read issues two get requests; how it ends, the ID it leaves and the
\* attributes it writes are decided by the second request alone (the result of
\* the first is discarded).
C15_ReadDecidedBySecondGet ==
    Returned("Read") =>
        /\ Len(reqs) = 2
        /\ CodeOf(2) = 200 =>
              (result.status = "ok" /\ id = priorId
               /\ attrs = SetFromImage(prior, remote[id]))
        /\ CodeOf(2) = NotFound =>
              (result.status = "ok" /\ id = EmptyId /\ attrs = prior)
        /\ CodeOf(2) \in ApiFailures =>
              (result.status = "err" /\ id = priorId /\ attrs = prior)

\* C18: an Update of an image that has disappeared, whose requests got nothing
\* worse than a 404, does not return an error.
C18_UpdateOfVanishedImageIsNoError ==
    (/\ Returned("Update")
     /\ \E k \in DOMAIN reqs : CodeOf(k) = NotFound
     /\ \A k \in DOMAIN reqs : CodeOf(k) \in {200, NotFound})
        => result.status # "err"

\* C20: an Update that failed at its get request or at its update request, and
\* a Delete that failed, leave the ID and every attribute as they were before
\* the operation; an Update whose get request failed has issued no update
\* request.
C20_FailedUpdateDeleteWriteNothing ==
    /\ (Returned("Update") /\ result.status = "err" /\ Len(reqs) <= 2) =>
          /\ id = priorId
          /\ attrs = prior
          /\ \A k \in DOMAIN reqs : reqs[k].call = "UpdateImage" =>
                (k = 2 /\ reqs[1] = Req("GetImage", 200))
    /\ (caller = "Update" /\ Len(reqs) >= 1 /\ CodeOf(1) # 200) =>
          (Returned("Update") /\ result.status = "err" /\ Len(reqs) = 1)
    /\ (Returned("Delete") /\ result.status = "err") =>
          (id = priorId /\ attrs = prior /\ CodeOf(1) # 200)

\* C19: a Read that finds the image present writes label, description, type,
\* size, vendor, created_by, deprecated and is_public from the image it fetched,
\* writes created and expiry (as RFC 3339 text) only when the image has them,
\* and otherwise leaves them, disk_id, linode_id and the ID as they were.
C19_ReadMapsImage ==
    (Returned("Read") /\ result.status = "ok" /\ id # EmptyId) =>
        /\ image # Nil
        /\ attrs.label = image.label
        /\ attrs.description = image.description
        /\ attrs.type = image.type
        /\ attrs.size = image.size
        /\ attrs.vendor = image.vendor
        /\ attrs.created_by = image.created_by
        /\ attrs.deprecated = image.deprecated
        /\ attrs.is_public = image.is_public
        /\ attrs.created = (IF image.created = Nil THEN prior.created
                            ELSE IF image.created.unix = 1 THEN "1970-01-01T00:00:01Z"
                            ELSE "1970-01-01T00:00:02Z")
        /\ attrs.expiry = (IF image.expiry = Nil THEN prior.expiry
                           ELSE IF image.expiry.unix = 1 THEN "1970-01-01T00:00:01Z"
                           ELSE "1970-01-01T00:00:02Z")
        /\ attrs.disk_id = prior.disk_id
        /\ attrs.linode_id = prior.linode_id
        /\ id = priorId

C19_Witness ==
    /\ Returned("Read") /\ result.status = "ok" /\ id # EmptyId
    /\ image.created = Nil /\ attrs.created = "1970-01-01T00:00:01Z"
    /\ image.expiry # Nil /\ image.expiry.nsec = 500
    /\ attrs.expiry = "1970-01-01T00:00:02Z" /\ prior.expiry = ""
    /\ attrs.type = "manual" /\ attrs.size = 2500


----------------------------------------------------------------------------
(* Import *)

\* an import of the image that a Create and its Reads left in snap, and a Read
\* right after it, the remote image being the same all along
ImportedAndRead ==
    pc = "idle" /\ track = "import_read" /\ snap # Nil /\ snap.id = id

\* C16: after an import by ID and a Read, every attribute of the
\* schema is what Create followed by Read had stored.
C16_ImportReadEqualsCreateRead ==
    ImportedAndRead => attrs = snap.attrs

\* C16, amended: the import takes the ID as given and sets no attribute; after
\* the Read every attribute except disk_id and linode_id is what Create followed
\* by Read had stored; disk_id and linode_id, which Read never sets, are zero.
C16_ImportReadEqualsExceptForceNew ==
    /\ Returned("Import") => (attrs = ZeroAttrs /\ id \in ImageIds)
    /\ ImportedAndRead =>
          /\ [attrs EXCEPT !.disk_id = snap.attrs.disk_id,
                           !.linode_id = snap.attrs.linode_id] = snap.attrs
          /\ attrs.disk_id = 0 /\ attrs.linode_id = 0
          /\ snap.attrs.disk_id = config.disk_id
          /\ snap.attrs.linode_id = config.linode_id

C16_Witness ==
    /\ ImportedAndRead /\ Returned("Read") /\ result.status = "ok"
    /\ attrs.label = snap.attrs.label /\ attrs.description = "desc"
    /\ attrs.disk_id = 0 /\ snap.attrs.disk_id = 100


----------------------------------------------------------------------------
(* The volume's attachment *)

\* C12: the change detector returns false when both are absent, true when
\* exactly one is absent, have # want when both are present, and the same with
\* have and want swapped.
C12_DetectOptionalIntChange ==
    /\ (detect.have = Nil /\ detect.want = Nil) => ~detect.changed
    /\ ((detect.have = Nil) # (detect.want = Nil)) => detect.changed
    /\ (detect.have # Nil /\ detect.want # Nil) =>
          (detect.changed <=> detect.have.v # detect.want.v)
    /\ detect.changed = detectVolumeIDChange(detect.want, detect.have)

C12_Witness ==
    /\ detect.have # Nil /\ detect.want = Nil /\ detect.changed
    /\ vop.op = "none"

\* C13: an Update that leaves the configured linode_id as it was (it changes the
\* label) issues no attach and no detach request, and linode_id is the same
\* after it as before.
C13_LabelUpdateLeavesAttachment ==
    (vop.op = "Update" /\ vop.wantBefore = vcfg.linode_id) =>
        /\ \A k \in DOMAIN vreqs : vreqs[k] \notin {"AttachVolume", "DetachVolume"}
        /\ vreqs = <<"GetVolume", "UpdateVolume", "GetVolume">>
        /\ vattrs.linode_id = vprior.linode_id
        /\ vattrs.label = vcfg.label /\ vattrs.label # vprior.label

C13_Witness ==
    /\ vop.op = "Update" /\ vop.wantBefore = vcfg.linode_id
    /\ vattrs.linode_id = 1 /\ vprior.linode_id = 1
    /\ vattrs.label = "v1_r" /\ vprior.label = "v1"

\* C14: a volume is attached to at most one instance at a time, and after every
\* create, attach, reattach and detach the linode_id read back is the configured
\* one: 0 for an unattached volume, else the one instance it is attached to.
C14_AtMostOneInstance ==
    /\ vremote # Nil => Cardinality(vremote.attached) <= 1
    /\ vattrs # Nil =>
          /\ vattrs.linode_id = vcfg.linode_id
          /\ vremote.attached = (IF vcfg.linode_id = 0 THEN {} ELSE {vcfg.linode_id})
          /\ vattrs.region = "us-west"

C14_Witness ==
    /\ vop.op = "Update" /\ vprior.linode_id = 1 /\ vattrs.linode_id = 2
    /\ vremote.attached = {2}
    /\ vreqs = <<"GetVolume", "DetachVolume", "AttachVolume", "GetVolume">>

----------------------------------------------------------------------------
(* Update while the remote image changes *)

\* C21: an Update that returns success with a non-empty ID has stored the label
\* and description of the image its Read fetched, which the remote image held
\* at the moment of that request; an Update of an image that is gone when it
\* returns (deleted before one of its requests) returns an error or returns
\* with the ID cleared.
C21_UpdateStoresWhatRemoteHeld ==
    /\ [](/\ (Returned("Update") /\ result.status = "ok" /\ id # EmptyId) =>
                /\ Present(id) /\ image # Nil
                /\ attrs.label = image.label
                /\ attrs.description = image.description
                /\ Len(reqs) = 4 /\ \A k \in DOMAIN reqs : CodeOf(k) = 200
          /\ (Returned("Update") /\ ~Present(priorId)) =>
                \/ result.status = "err"
                \/ result.status = "ok" /\ id = EmptyId)
    /\ [][(caller = "Update" /\ pc = "read_get" /\ pc' = "read_exists" /\ image' # Nil)
             => (Present(id) /\ image' = remote[id])]_vars
    /\ [][(caller = "Update" /\ pc = "read_exists") => image' = image]_vars

C21_Witness ==
    /\ Returned("Update") /\ result.status = "ok" /\ id # EmptyId
    /\ attrs.label = image.label /\ attrs.description = image.description
    /\ attrs.label # config.label
    /\ remote[id].label # attrs.label

====
